---- MODULE Spec2Model ----
(***************************************************************************)
(* Model of venv/app.py (NLP-QUERY-HUB): the SQL extractor                 *)
(* clean_sql_from_model, the safety gate is_sql_safe, the executor         *)
(* execute_sql_on_df and the submit handler with its session history.      *)
(*                                                                         *)
(* Text is a sequence of tokens.  A token is the literal piece of text it  *)
(* is written as; a string is the concatenation of its tokens.  No token   *)
(* is a prefix of another one, so the regular expressions of the source    *)
(* act on token boundaries only: "select" starts a word, "x" and "sql" are *)
(* identifier characters that glue to a neighbouring word ("selectx"),     *)
(* "-" "-" side by side is the line-comment marker, FENCE is a code fence.*)
(* Whitespace is SPACE and NEWLINE.                                         *)
(***************************************************************************)
EXTENDS Integers, Sequences, FiniteSets, TLC

\* ---------------------------------------------------------------- bounds
MaxLen == 4
MaxSubmissions == 3

\* ---------------------------------------------------------------- tokens
SPACE == " "
NEWLINE == "\n"
SEMI == ";"
DASH == "-"
\* the triple-backtick code fence marker
FENCE == "<fence>"

WordTokens == {"select", "SELECT", "DROP", "update", "x", "sql", "SQL", "python"}
Alphabet == {"select", "SELECT", "DROP", "update", "x", "sql", SPACE, NEWLINE, SEMI, DASH,
             FENCE}

Texts == UNION {[1..n -> Alphabet] : n \in 0..MaxLen}

\* str.lower() on one token
lower(t) ==
    CASE t = "SELECT" -> "select"
      [] t = "DROP" -> "drop"
      [] t = "SQL" -> "sql"
      [] OTHER -> t

\* \s of the regular expressions, and the characters str.strip() removes
IsSpace(t) == t \in {SPACE, NEWLINE}
\* \w: a token made of word characters
IsWord(t) == t \in WordTokens

Min(S) == CHOOSE m \in S : \A k \in S : m <= k
Max(S) == CHOOSE m \in S : \A k \in S : m >= k
Range(s) == {s[i] : i \in 1..Len(s)}

\* str.strip()
strip(s) ==
    LET keep == {i \in 1..Len(s) : ~IsSpace(s[i])}
    IN  IF keep = {} THEN <<>> ELSE SubSeq(s, Min(keep), Max(keep))

\* str.lstrip() as done by a leading \s* of a pattern
lstrip(s) ==
    LET keep == {i \in 1..Len(s) : ~IsSpace(s[i])}
    IN  IF keep = {} THEN <<>> ELSE SubSeq(s, Min(keep), Len(s))

\* trailing whitespace as consumed by the \s* in front of a closing fence
rstrip_space(s) ==
    LET keep == {i \in 1..Len(s) : ~IsSpace(s[i])}
    IN  IF keep = {} THEN <<>> ELSE SubSeq(s, 1, Max(keep))

\* str.rstrip of the semicolon: every trailing one goes
rstrip_semi(s) ==
    LET keep == {i \in 1..Len(s) : s[i] # SEMI}
    IN  IF keep = {} THEN <<>> ELSE SubSeq(s, 1, Max(keep))

\* ------------------------------------------------------------ SQL CLEANING
\* re.sub of the opening fence, an optional sql tag and \s*, tag compared as written
sub_open_fence_case_sensitive(t) ==
    IF Len(t) >= 1 /\ t[1] = FENCE
    THEN LET from == IF Len(t) >= 2 /\ t[2] = "sql" THEN 3 ELSE 2
         IN  lstrip(SubSeq(t, from, Len(t)))
    ELSE t

\* re.sub of the opening fence, an optional sql tag and \s*
sub_open_fence(t) ==
    IF Len(t) >= 1 /\ t[1] = FENCE
    THEN LET from == IF Len(t) >= 2 /\ lower(t[2]) = "sql" THEN 3 ELSE 2
         IN  lstrip(SubSeq(t, from, Len(t)))
    ELSE t

\* re.sub of \s* and the closing fence at the end
sub_close_fence(t) ==
    IF Len(t) >= 1 /\ t[Len(t)] = FENCE
    THEN rstrip_space(SubSeq(t, 1, Len(t) - 1))
    ELSE t

\* re.search(r"(select\b.*)", t, IGNORECASE | DOTALL): the text from the first
\* "select" that ends at a word boundary, or all of t when there is none
search_select(t) ==
    LET hits == {i \in 1..Len(t) :
                    /\ lower(t[i]) = "select"
                    /\ (i = Len(t) \/ ~IsWord(t[i + 1]))}
    IN  IF hits = {} THEN t ELSE strip(SubSeq(t, Min(hits), Len(t)))

\* str.splitlines(), empty lines included
RECURSIVE splitlines(_)
splitlines(s) ==
    LET brk == {i \in 1..Len(s) : s[i] = NEWLINE}
    IN  IF s = <<>> THEN <<>>
        ELSE IF brk = {} THEN <<s>>
        ELSE <<SubSeq(s, 1, Min(brk) - 1)>> \o splitlines(SubSeq(s, Min(brk) + 1, Len(s)))

\* " ".join(line.strip() for line in lines if line.strip())
RECURSIVE join_lines(_)
join_lines(lines) ==
    IF lines = <<>> THEN <<>>
    ELSE LET head == strip(Head(lines))
             rest == join_lines(Tail(lines))
         IN  IF head = <<>> THEN rest
             ELSE IF rest = <<>> THEN head
             ELSE head \o <<SPACE>> \o rest

clean_sql_from_model(text) ==
    IF text = <<>> THEN <<>>
    ELSE LET t0 == strip(text)
             t1 == sub_open_fence(t0)
             t2 == strip(sub_close_fence(t1))
             t3 == strip(rstrip_semi(t2))
             candidate == search_select(t3)
         IN  join_lines(splitlines(candidate))

\* -------------------------------------------------------------- SQL SAFETY
DenyWords == {"insert", "update", "delete", "drop", "truncate", "alter", "create",
              "grant", "revoke", "replace", "exec", "call", "copy", "vacuum"}

\* a keyword between two word boundaries, at position i of s
WholeWordAt(s, i, words) ==
    /\ words
    /\ (i = 1 \/ ~IsWord(s[i - 1]))
    /\ (i = Len(s) \/ ~IsWord(s[i + 1]))

\* DENY_PATTERN.search(s) without re.IGNORECASE
DENY_PATTERN_case_sensitive(s) ==
    \E i \in 1..Len(s) :
        \/ s[i] = SEMI
        \/ (s[i] = DASH /\ i < Len(s) /\ s[i + 1] = DASH)
        \/ WholeWordAt(s, i, s[i] \in DenyWords)

\* DENY_PATTERN.search(s)
DENY_PATTERN(s) ==
    \E i \in 1..Len(s) :
        \/ s[i] = SEMI
        \/ (s[i] = DASH /\ i < Len(s) /\ s[i + 1] = DASH)
        \/ WholeWordAt(s, i, lower(s[i]) \in DenyWords)

\* s.lower().startswith("select")
startswith_select(s) == Len(s) >= 1 /\ lower(s[1]) = "select"

\* is_sql_safe looking at the first statement only (a split at the first semicolon)
is_sql_safe_first_statement(sql_text) ==
    IF sql_text = <<>> THEN FALSE
    ELSE LET s0 == strip(rstrip_semi(strip(sql_text)))
             semis == {i \in 1..Len(s0) : s0[i] = SEMI}
             s == IF semis = {} THEN s0 ELSE SubSeq(s0, 1, Min(semis) - 1)
         IN  IF ~startswith_select(s) THEN FALSE
             ELSE IF DENY_PATTERN(s) THEN FALSE
             ELSE TRUE

is_sql_safe(sql_text) ==
    IF sql_text = <<>> THEN FALSE
    ELSE LET s == strip(rstrip_semi(strip(sql_text)))
         IN  IF ~startswith_select(s) THEN FALSE
             ELSE IF DENY_PATTERN(s) THEN FALSE
             ELSE IF SEMI \in Range(s) THEN FALSE
             ELSE TRUE

\* --------------------------------------------------------- SQL EXECUTION
None == "None"

\* what DuckDB does with one call: all goes well, or connect, register or
\* execute raises
ExecOutcomes == {"ok", "connect_raised", "register_raised", "execute_raised"}

\* execute_sql_on_df: the error text it returns (None on success) and the state
\* of the connection it made when it returns; con.close() is on the success
\* path only, the except branch returns with the connection as it is
execute_sql_on_df(sql_text, outcome) ==
    CASE outcome = "ok" -> [err |-> None, con |-> "closed"]
      [] outcome = "connect_raised" -> [err |-> "connect error", con |-> "none"]
      [] outcome = "register_raised" -> [err |-> "register error", con |-> "open"]
      [] OTHER -> [err |-> "engine error", con |-> "open"]

\* ------------------------------------------------------------------ state
\* the script runs of one session
Procs == {1, 2}
UserQueries == {"show x"}
Dataset == "uploaded csv"

\* completions the model service returns in the session specifications
ModelOutputs ==
    { <<"select", SPACE, "x">>,
      <<FENCE, "sql", NEWLINE, "SELECT", SPACE, "x", SEMI, NEWLINE, FENCE>>,
      <<"select", SPACE, "x", SEMI, SPACE, SEMI>>,
      <<"DROP", SPACE, "x">>,
      <<"select", SPACE, "x", SEMI, SPACE, "DROP", SPACE, "x">> }

\* opening-fence language tags
Tags == {<<>>, <<"sql">>, <<"SQL">>, <<"python">>}

VARIABLES
    history,        \* st.session_state.history
    df,             \* the uploaded dataset
    open_cons,      \* connections execute_sql_on_df returned without closing
    submitted,      \* submissions so far
    pc,             \* where each script run stands in the submit handler
    user_q,         \* handler local
    lm_out,         \* handler local
    sql_candidate,  \* handler local
    err,            \* handler local
    log_entry,      \* handler local
    exec_arg,       \* the string the run handed to execute_sql_on_df
    trail,          \* what the run did, in order
    hist_at_submit, \* len(history) when the run was submitted
    txt,            \* an input of the text functions
    stage,          \* which text function was applied
    verdict,        \* is_sql_safe(txt)
    cleaned,        \* clean_sql_from_model(txt)
    fenced          \* clean_sql_from_model(txt in a fenced block), per language tag

session_vars == <<history, df, open_cons, submitted>>
run_vars == <<pc, user_q, lm_out, sql_candidate, err, log_entry, exec_arg, trail,
              hist_at_submit>>
text_vars == <<txt, stage, verdict, cleaned, fenced>>
vars == <<session_vars, run_vars, text_vars>>

NoEntry == [id |-> 0, user_query |-> None, generated_sql |-> <<>>,
            executed |-> FALSE, error_text |-> None]

InitSession ==
    /\ history = <<>>
    /\ df = Dataset
    /\ open_cons = 0
    /\ submitted = 0
    /\ pc = [p \in Procs |-> "idle"]
    /\ user_q = [p \in Procs |-> None]
    /\ lm_out = [p \in Procs |-> <<>>]
    /\ sql_candidate = [p \in Procs |-> <<>>]
    /\ err = [p \in Procs |-> None]
    /\ log_entry = [p \in Procs |-> NoEntry]
    /\ exec_arg = [p \in Procs |-> <<>>]
    /\ trail = [p \in Procs |-> <<>>]
    /\ hist_at_submit = [p \in Procs |-> 0]

InitText(inputs) ==
    /\ txt \in inputs
    /\ stage = "input"
    /\ verdict = FALSE
    /\ cleaned = <<>>
    /\ fenced = [tg \in Tags |-> <<>>]

Init == InitSession /\ InitText({<<>>})

\* ----------------------------------------------------------- submit handler
\* st.button("Get your SQL Query") with a non-empty request: a script run
\* starts.  Streamlit runs one script at a time per session (exclusive).
Submit(p, q, limit, exclusive) ==
    /\ pc[p] = "idle"
    /\ submitted < limit
    /\ exclusive => \A o \in Procs : pc[o] = "idle"
    /\ submitted' = submitted + 1
    /\ pc' = [pc EXCEPT ![p] = "call"]
    /\ user_q' = [user_q EXCEPT ![p] = q]
    /\ lm_out' = [lm_out EXCEPT ![p] = <<>>]
    /\ sql_candidate' = [sql_candidate EXCEPT ![p] = <<>>]
    /\ err' = [err EXCEPT ![p] = None]
    /\ log_entry' = [log_entry EXCEPT ![p] = NoEntry]
    /\ exec_arg' = [exec_arg EXCEPT ![p] = <<>>]
    /\ trail' = [trail EXCEPT ![p] = <<>>]
    /\ hist_at_submit' = [hist_at_submit EXCEPT ![p] = Len(history)]
    /\ UNCHANGED <<history, df, open_cons, text_vars>>

\* call_lmstudio_chat returned one of outs; clean_sql_from_model(lm_out)
CallModelOk(p, outs) ==
    /\ pc[p] = "call"
    /\ \E out \in outs :
        /\ lm_out' = [lm_out EXCEPT ![p] = out]
        /\ sql_candidate' = [sql_candidate EXCEPT ![p] = clean_sql_from_model(out)]
    /\ trail' = [trail EXCEPT ![p] = Append(@, "model_ok")]
    /\ pc' = [pc EXCEPT ![p] = "gate"]
    /\ UNCHANGED <<session_vars, user_q, err, log_entry, exec_arg, hist_at_submit,
                   text_vars>>

\* call_lmstudio_chat raised: st.error, st.stop()
CallModelError(p) ==
    /\ pc[p] = "call"
    /\ trail' = [trail EXCEPT ![p] = Append(@, "model_error")]
    /\ pc' = [pc EXCEPT ![p] = "idle"]
    /\ UNCHANGED <<session_vars, user_q, lm_out, sql_candidate, err, log_entry,
                   exec_arg, hist_at_submit, text_vars>>

\* the safety check without st.stop(): the run goes on to execute
SafetyCheck_no_stop(p) ==
    /\ pc[p] = "gate"
    /\ trail' = [trail EXCEPT ![p] =
                    Append(@, IF is_sql_safe(sql_candidate[p])
                              THEN "gate_safe" ELSE "gate_unsafe")]
    /\ pc' = [pc EXCEPT ![p] = "exec"]
    /\ UNCHANGED <<session_vars, user_q, lm_out, sql_candidate, err, log_entry,
                   exec_arg, hist_at_submit, text_vars>>

\* if not is_sql_safe(sql_candidate): st.error, st.stop()
SafetyCheck(p) ==
    /\ pc[p] = "gate"
    /\ IF ~is_sql_safe(sql_candidate[p])
       THEN /\ trail' = [trail EXCEPT ![p] = Append(@, "gate_unsafe")]
            /\ pc' = [pc EXCEPT ![p] = "idle"]
       ELSE /\ trail' = [trail EXCEPT ![p] = Append(@, "gate_safe")]
            /\ pc' = [pc EXCEPT ![p] = "exec"]
    /\ UNCHANGED <<session_vars, user_q, lm_out, sql_candidate, err, log_entry,
                   exec_arg, hist_at_submit, text_vars>>

\* result_df, err = execute_sql_on_df(df, sql_candidate)
Execute(p, outcome) ==
    /\ pc[p] = "exec"
    /\ LET r == execute_sql_on_df(sql_candidate[p], outcome)
       IN  /\ err' = [err EXCEPT ![p] = r.err]
           /\ open_cons' = open_cons + (IF r.con = "open" THEN 1 ELSE 0)
    /\ exec_arg' = [exec_arg EXCEPT ![p] = sql_candidate[p]]
    /\ trail' = [trail EXCEPT ![p] = Append(@, "exec")]
    /\ pc' = [pc EXCEPT ![p] = "log"]
    /\ UNCHANGED <<history, df, submitted, user_q, lm_out, sql_candidate, log_entry,
                   hist_at_submit, text_vars>>

\* the log_entry dict with the id taken as len(history)
build_log_entry_id_from_zero(p) ==
    [id |-> Len(history),
     user_query |-> user_q[p],
     generated_sql |-> sql_candidate[p],
     executed |-> (err[p] = None),
     error_text |-> err[p]]

\* the log_entry dict with executed set whenever the executor was called
build_log_entry_executed_when_called(p) ==
    [id |-> Len(history) + 1,
     user_query |-> user_q[p],
     generated_sql |-> sql_candidate[p],
     executed |-> TRUE,
     error_text |-> err[p]]

\* the log_entry dict (created_at, a wall-clock stamp, is left out)
build_log_entry(p) ==
    [id |-> Len(history) + 1,
     user_query |-> user_q[p],
     generated_sql |-> sql_candidate[p],
     executed |-> (err[p] = None),
     error_text |-> err[p]]

\* log_entry = {...}: len(st.session_state.history) is read here
BuildEntry(p) ==
    /\ pc[p] = "log"
    /\ log_entry' = [log_entry EXCEPT ![p] = build_log_entry(p)]
    /\ pc' = [pc EXCEPT ![p] = "append"]
    /\ UNCHANGED <<session_vars, user_q, lm_out, sql_candidate, err, exec_arg, trail,
                   hist_at_submit, text_vars>>

\* st.session_state.history.append(log_entry)
AppendEntry(p) ==
    /\ pc[p] = "append"
    /\ history' = Append(history, log_entry[p])
    /\ trail' = [trail EXCEPT ![p] = Append(@, "logged")]
    /\ pc' = [pc EXCEPT ![p] = "idle"]
    /\ UNCHANGED <<df, open_cons, submitted, user_q, lm_out, sql_candidate, err,
                   log_entry, exec_arg, hist_at_submit, text_vars>>

\* one session, one script run at a time
Next ==
    \E p \in Procs :
        \/ \E q \in UserQueries : Submit(p, q, MaxSubmissions, TRUE)
        \/ CallModelOk(p, ModelOutputs)
        \/ CallModelError(p)
        \/ SafetyCheck(p)
        \/ \E outcome \in ExecOutcomes : Execute(p, outcome)
        \/ BuildEntry(p)
        \/ AppendEntry(p)

Spec == Init /\ [][Next]_vars

\* one session whose script runs overlap
NextConcurrent ==
    \E p \in Procs :
        \/ \E q \in UserQueries : Submit(p, q, MaxSubmissions, FALSE)
        \/ CallModelOk(p, ModelOutputs)
        \/ CallModelError(p)
        \/ SafetyCheck(p)
        \/ \E outcome \in ExecOutcomes : Execute(p, outcome)
        \/ BuildEntry(p)
        \/ AppendEntry(p)

SpecConcurrent == Init /\ [][NextConcurrent]_vars

\* one submission, the model service returning any text
NextAnyOutput ==
    \E p \in Procs :
        \/ \E q \in UserQueries : Submit(p, q, 1, TRUE)
        \/ CallModelOk(p, Texts)
        \/ CallModelError(p)
        \/ SafetyCheck(p)
        \/ \E outcome \in ExecOutcomes : Execute(p, outcome)
        \/ BuildEntry(p)
        \/ AppendEntry(p)

SpecAnyOutput == Init /\ [][NextAnyOutput]_vars

\* ------------------------------------------------- the text functions alone
\* txt inside a fenced code block: opening fence, tag, txt on its own lines,
\* closing fence
wrap(tg, t) == <<FENCE>> \o tg \o <<NEWLINE>> \o t \o <<NEWLINE, FENCE>>

ApplyGate ==
    /\ stage = "input"
    /\ verdict' = is_sql_safe(txt)
    /\ stage' = "gated"
    /\ UNCHANGED <<session_vars, run_vars, txt, cleaned, fenced>>

ApplyClean ==
    /\ stage = "input"
    /\ cleaned' = clean_sql_from_model(txt)
    /\ fenced' = [tg \in Tags |-> clean_sql_from_model(wrap(tg, txt))]
    /\ stage' = "cleaned"
    /\ UNCHANGED <<session_vars, run_vars, txt, verdict>>

InitFunctions == InitSession /\ InitText(Texts)

NextFunctions ==
    \/ ApplyGate
    \/ ApplyClean

SpecFunctions == InitFunctions /\ [][NextFunctions]_vars

\* ------------------------------------------------------------- properties
Has(seq, e) == \E i \in 1..Len(seq) : seq[i] = e
Last(seq) == seq[Len(seq)]

\* the text with leading and trailing whitespace taken off
NonSpace(t) == {i \in 1..Len(t) : t[i] \notin {SPACE, NEWLINE}}
Trimmed(t) == IF NonSpace(t) = {} THEN <<>> ELSE SubSeq(t, Min(NonSpace(t)), Max(NonSpace(t)))
EmptyAfterTrim(t) == NonSpace(t) = {}
BeginsWithSelect(t) == NonSpace(t) # {} /\ t[Min(NonSpace(t))] \in {"select", "SELECT"}
\* a terminator with more statement text after it
HasEmbeddedSemi(t) ==
    \E i, j \in 1..Len(t) : i < j /\ t[i] = SEMI /\ t[j] \notin {SEMI, SPACE, NEWLINE}
HasLineComment(t) == \E i \in 1..Len(t) - 1 : t[i] = DASH /\ t[i + 1] = DASH
HasDenyWord(t) ==
    \E i \in 1..Len(t) :
        /\ t[i] \in {"DROP", "update"}
        /\ (i = 1 \/ t[i - 1] \notin WordTokens)
        /\ (i = Len(t) \/ t[i + 1] \notin WordTokens)

\* C1: the executor runs only after the model call returned and the safety gate
\* passed the candidate of the same submission; a submission that ended on a
\* model-service error or a gate rejection never invoked the executor.
C1_ExecutorOnlyAfterGate ==
    \A p \in Procs :
        /\ Has(trail[p], "exec") =>
              /\ SubSeq(trail[p], 1, 3) = <<"model_ok", "gate_safe", "exec">>
              /\ exec_arg[p] = sql_candidate[p]
              /\ is_sql_safe(exec_arg[p])
        /\ (Has(trail[p], "model_error") \/ Has(trail[p], "gate_unsafe")) =>
              /\ ~Has(trail[p], "exec")
              /\ pc[p] = "idle"

C1_Witness ==
    \E p, o \in Procs :
        /\ Has(trail[p], "exec")
        /\ trail[o] # <<>> /\ Last(trail[o]) = "gate_unsafe"

\* C2: is_sql_safe reports unsafe every candidate that is empty after trimming,
\* or does not begin with select in any letter case, or has an embedded
\* terminator, or a line-comment marker, or a deny-listed keyword as a whole
\* word in any letter case, also when select appears in it.
C2_GateRejects ==
    (stage = "gated" /\ ( \/ EmptyAfterTrim(txt)
                          \/ ~BeginsWithSelect(txt)
                          \/ HasEmbeddedSemi(txt)
                          \/ HasLineComment(txt)
                          \/ HasDenyWord(txt) ))
        => verdict = FALSE

C2_Witness ==
    /\ stage = "gated"
    /\ verdict = FALSE
    /\ BeginsWithSelect(txt)
    /\ HasDenyWord(txt)
    /\ ~HasEmbeddedSemi(txt)
    /\ ~HasLineComment(txt)
    /\ SEMI \notin Range(txt)

\* C3: a submission the safety gate rejected leaves exactly one new entry in
\* the history, with executed false and an error text, the executor not called
\* and the dataset as it was.
C3_RejectionLogged ==
    \A p \in Procs :
        (trail[p] # <<>> /\ Last(trail[p]) = "gate_unsafe") =>
            /\ ~Has(trail[p], "exec")
            /\ df = Dataset
            /\ Len(history) = hist_at_submit[p] + 1
            /\ history[Len(history)].executed = FALSE
            /\ history[Len(history)].error_text # None

\* C4: the history only grows by appending, and the ids of its entries are
\* 1, 2, ..., n in log order whatever each submission came to.
IdsSequential == \A i \in 1..Len(history) : history[i].id = i
AppendOnly ==
    /\ Len(history') >= Len(history)
    /\ SubSeq(history', 1, Len(history)) = history
C4_AppendOnlySequentialIds == []IdsSequential /\ [][AppendOnly]_vars

C4_Witness ==
    /\ Len(history) >= 2
    /\ submitted > Len(history)
    /\ \E i, j \in 1..Len(history) : history[i].executed /\ ~history[j].executed

\* C5: in every entry of the history, executed is true exactly when the error
\* text is absent.
C5_ExecutedIffNoError ==
    \A i \in 1..Len(history) : history[i].executed <=> (history[i].error_text = None)

C5_Witness ==
    \E i, j \in 1..Len(history) :
        /\ history[i].executed /\ history[i].error_text = None
        /\ ~history[j].executed /\ history[j].error_text = "engine error"

\* C6: every call of the executor has closed the connection it made when it
\* returns, on the error path as on the success path: none stays open.
C6_NoOpenConnection == open_cons = 0

FenceAtEnds(t) ==
    LET u == Trimmed(t) IN Len(u) >= 1 /\ (u[1] = FENCE \/ u[Len(u)] = FENCE)
DropOneTrailingSemi(u) ==
    IF Len(u) >= 1 /\ u[Len(u)] = SEMI THEN SubSeq(u, 1, Len(u) - 1) ELSE u
C9_OneTrailingSemi ==
    (stage = "gated" /\ SEMI \in Range(DropOneTrailingSemi(Trimmed(txt))))
        => verdict = FALSE

\* C9 as amended: the whole run of trailing terminators is taken off; a
\* terminator in front of that run makes the candidate unsafe, and a plain
\* select ending in two or more terminators is passed
SemiBeforeTrailingRun(t) ==
    LET u == Trimmed(t)
    IN  \E i, j \in 1..Len(u) : i < j /\ u[i] = SEMI /\ u[j] # SEMI
SelectWithTrailingSemis(t) ==
    /\ Len(t) >= 3
    /\ t[1] \in {"select", "SELECT"}
    /\ t[Len(t)] = SEMI /\ t[Len(t) - 1] = SEMI
    /\ \A i \in 2..Len(t) : t[i] \in {"x", SPACE, SEMI}
    /\ \A i, j \in 2..Len(t) : (i < j /\ t[i] = SEMI) => t[j] = SEMI
C9_AllTrailingSemis ==
    stage = "gated" =>
        /\ SemiBeforeTrailingRun(txt) => verdict = FALSE
        /\ SelectWithTrailingSemis(txt) => verdict = TRUE

C9_Witness ==
    /\ stage = "gated"
    /\ SelectWithTrailingSemis(txt)
    /\ verdict = TRUE

\* C10: the string handed to the executor holds no terminator, no line-comment
\* marker and no deny-listed keyword, and begins with select.
C10_ExecutedStringAsChecked ==
    \A p \in Procs :
        Has(trail[p], "exec") =>
            /\ SEMI \notin Range(exec_arg[p])
            /\ ~HasLineComment(exec_arg[p])
            /\ ~HasDenyWord(exec_arg[p])
            /\ Len(exec_arg[p]) >= 1 /\ exec_arg[p][1] \in {"select", "SELECT"}

====
